---- MODULE Spec2Model ----
(***************************************************************************)
(* Model of backend/app.py: the /solve handler of the equation API and the *)
(* three functions it calls, parse_equation, solve_equation and            *)
(* format_solutions.                                                       *)
(*                                                                         *)
(* Python strings are sequences of one-character strings, so that strip,   *)
(* replace, split, len, str and join are modelled by what they do.  The    *)
(* computer-algebra library the program calls (parse_expr, the expression  *)
(* arithmetic, simplify, solve, float, str) is modelled by its behaviour   *)
(* on a catalogue of concrete equation texts.                              *)
(***************************************************************************)
EXTENDS Integers, Sequences, FiniteSets, TLC

(***************************************************************************)
(* Bounds of the model.                                                    *)
(***************************************************************************)
\* number of /solve requests that may be in progress at the same time
NReq == 2
\* roots of the catalogue's polynomials are searched in -RootBound..RootBound
RootBound == 3

(***************************************************************************)
(* Program constants.                                                      *)
(***************************************************************************)
\* app.py:90  len(equation) > 500
MaxEquationLen == 500

(***************************************************************************)
(* String literals of the program and the catalogue of equation texts.     *)
(***************************************************************************)
\* 'No solution exists'
MsgNoSolution == <<"N", "o", " ", "s", "o", "l", "u", "t", "i", "o", "n", " ", "e", "x", "i", "s", "t", "s">>
\* 'x can be any real number'
MsgAnyReal == <<"x", " ", "c", "a", "n", " ", "b", "e", " ", "a", "n", "y", " ", "r", "e", "a", "l", " ", "n", "u", "m", "b", "e", "r">>
\* ' can be any real number'
TailAnyReal == <<" ", "c", "a", "n", " ", "b", "e", " ", "a", "n", "y", " ", "r", "e", "a", "l", " ", "n", "u", "m", "b", "e", "r">>
\* ' = '
StrEq == <<" ", "=", " ">>
\* ' or '
StrOr == <<" ", "o", "r", " ">>
\* 'zoo'
StrZoo == <<"z", "o", "o">>
\* 'x - x = 5'
EqXMinusXIs5 == <<"x", " ", "-", " ", "x", " ", "=", " ", "5">>
\* 'x - x = 0'
EqXMinusXIs0 == <<"x", " ", "-", " ", "x", " ", "=", " ", "0">>
\* 'x*(x+1) = x^2 + x'
EqIdentity == <<"x", "*", "(", "x", "+", "1", ")", " ", "=", " ", "x", "^", "2", " ", "+", " ", "x">>
\* 'x*(x+1) = x^2 + x + 1'
EqContradiction == <<"x", "*", "(", "x", "+", "1", ")", " ", "=", " ", "x", "^", "2", " ", "+", " ", "x", " ", "+", " ", "1">>
\* 'x^2 - 4 = 0'
EqSquareMinus4 == <<"x", "^", "2", " ", "-", " ", "4", " ", "=", " ", "0">>
\* 'x^2 + 1 = 0'
EqSquarePlus1 == <<"x", "^", "2", " ", "+", " ", "1", " ", "=", " ", "0">>
\* '2*x + 4 = 10'
EqLinear == <<"2", "*", "x", " ", "+", " ", "4", " ", "=", " ", "1", "0">>
\* 'x^2 - 2*x + 1 = 0'
EqRepeated == <<"x", "^", "2", " ", "-", " ", "2", "*", "x", " ", "+", " ", "1", " ", "=", " ", "0">>
\* 'x^2 - 2*x + 5 = 0'
EqComplex == <<"x", "^", "2", " ", "-", " ", "2", "*", "x", " ", "+", " ", "5", " ", "=", " ", "0">>
\* '2 + 2'
EqTwoPlusTwo == <<"2", " ", "+", " ", "2">>
\* '2 - 2'
EqTwoMinusTwo == <<"2", " ", "-", " ", "2">>
\* '2 - 7'
EqTwoMinusSeven == <<"2", " ", "-", " ", "7">>
\* '1/2'
EqHalf == <<"1", "/", "2">>
\* '(x+1 = 0'
EqUnmatched == <<"(", "x", "+", "1", " ", "=", " ", "0">>
\* '2 +'
EqDangling == <<"2", " ", "+">>
\* 'x = 1 = 2'
EqDoubleEquals == <<"x", " ", "=", " ", "1", " ", "=", " ", "2">>
\* '$'
EqDollar == <<"$">>
\* '1/0'
EqDivZero == <<"1", "/", "0">>
\* 'x = cos(x)'
EqCos == <<"x", " ", "=", " ", "c", "o", "s", "(", "x", ")">>
\* '1/x = 0'
EqRecip == <<"1", "/", "x", " ", "=", " ", "0">>
\* 'sqrt()'
EqSqrtNoArg == <<"s", "q", "r", "t", "(", ")">>
\* '10^400'
EqHuge == <<"1", "0", "^", "4", "0", "0">>
\* '9007199254740993'
EqBig == <<"9", "0", "0", "7", "1", "9", "9", "2", "5", "4", "7", "4", "0", "9", "9", "3">>
\* 'y*(y+1) = y^2 + y'
EqYIdentity == <<"y", "*", "(", "y", "+", "1", ")", " ", "=", " ", "y", "^", "2", " ", "+", " ", "y">>
\* 'y^2 - 4 = 0'
EqYSquareMinus4 == <<"y", "^", "2", " ", "-", " ", "4", " ", "=", " ", "0">>
\* '2*y + 4 = 10'
EqYLinear == <<"2", "*", "y", " ", "+", " ", "4", " ", "=", " ", "1", "0">>
\* 'y - y = 0'
EqYMinusYIs0 == <<"y", " ", "-", " ", "y", " ", "=", " ", "0">>
\* 'x - x'
SdXMinusX == <<"x", " ", "-", " ", "x">>
\* 'x*(x+1)'
SdProduct == <<"x", "*", "(", "x", "+", "1", ")">>
\* 'x**2 + x'
SdSquarePlusX == <<"x", "*", "*", "2", " ", "+", " ", "x">>
\* 'x**2 + x + 1'
SdSquarePlusXPlus1 == <<"x", "*", "*", "2", " ", "+", " ", "x", " ", "+", " ", "1">>
\* 'x**2 - 4'
SdSquareMinus4 == <<"x", "*", "*", "2", " ", "-", " ", "4">>
\* 'x**2 + 1'
SdSquarePlus1 == <<"x", "*", "*", "2", " ", "+", " ", "1">>
\* '2*x + 4'
SdLinear == <<"2", "*", "x", " ", "+", " ", "4">>
\* 'x**2 - 2*x + 1'
SdRepeated == <<"x", "*", "*", "2", " ", "-", " ", "2", "*", "x", " ", "+", " ", "1">>
\* 'x**2 - 2*x + 5'
SdComplex == <<"x", "*", "*", "2", " ", "-", " ", "2", "*", "x", " ", "+", " ", "5">>
\* '2 + 2'
SdTwoPlusTwo == <<"2", " ", "+", " ", "2">>
\* '2 - 2'
SdTwoMinusTwo == <<"2", " ", "-", " ", "2">>
\* '2 - 7'
SdTwoMinusSeven == <<"2", " ", "-", " ", "7">>
\* '1/2'
SdHalf == <<"1", "/", "2">>
\* '(x+1'
SdUnmatched == <<"(", "x", "+", "1">>
\* '2 +'
SdDangling == <<"2", " ", "+">>
\* '1 = 2'
SdOneEqualsTwo == <<"1", " ", "=", " ", "2">>
\* '$'
SdDollar == <<"$">>
\* '1/0'
SdDivZero == <<"1", "/", "0">>
\* 'x'
SdX == <<"x">>
\* 'cos(x)'
SdCos == <<"c", "o", "s", "(", "x", ")">>
\* '1/x'
SdRecip == <<"1", "/", "x">>
\* 'sqrt()'
SdSqrtNoArg == <<"s", "q", "r", "t", "(", ")">>
\* '10**400'
SdHuge == <<"1", "0", "*", "*", "4", "0", "0">>
\* 'y - y'
SdYMinusY == <<"y", " ", "-", " ", "y">>
\* 'y*(y+1)'
SdYProduct == <<"y", "*", "(", "y", "+", "1", ")">>
\* 'y**2 + y'
SdYSquarePlusY == <<"y", "*", "*", "2", " ", "+", " ", "y">>
\* 'y**2 - 4'
SdYSquareMinus4 == <<"y", "*", "*", "2", " ", "-", " ", "4">>
\* '2*y + 4'
SdYLinear == <<"2", "*", "y", " ", "+", " ", "4">>

(***************************************************************************)
(* Python string operations on sequences of characters.                    *)
(***************************************************************************)
Spaces(n) == [i \in 1..n |-> " "]

\* "2 +" and "2" separated by blanks: texts of exactly 500 and of 501 characters
Long500 == <<"2", " ", "+">> \o Spaces(MaxEquationLen - 4) \o <<"2">>
Long501 == <<"2", " ", "+">> \o Spaces(MaxEquationLen - 3) \o <<"2">>

IsSpace(c) == c = " "

\* str.strip(): the text from its first to its last non-blank character
Strip(s) ==
    LET keep == {i \in 1..Len(s) : ~IsSpace(s[i])}
    IN  IF keep = {} THEN <<>>
        ELSE SubSeq(s, CHOOSE i \in keep : \A j \in keep : i <= j,
                       CHOOSE i \in keep : \A j \in keep : j <= i)

\* c in s
Contains(s, c) == \E i \in 1..Len(s) : s[i] = c

\* s.replace(c, t) for a one-character c
\* (the text is taken by halves, which keeps the recursion shallow)
RECURSIVE Replace(_, _, _)
Replace(s, c, t) ==
    IF s = <<>> THEN <<>>
    ELSE IF Len(s) = 1 THEN (IF s[1] = c THEN t ELSE s)
    ELSE LET h == Len(s) \div 2
         IN  Replace(SubSeq(s, 1, h), c, t) \o Replace(SubSeq(s, h + 1, Len(s)), c, t)

\* s.split(c, 1) for an s that contains c: the text before the first c and
\* the whole text after it
SplitFirst(s, c) ==
    LET i == CHOOSE k \in 1..Len(s) : s[k] = c /\ \A j \in 1..(k - 1) : s[j] # c
    IN  <<SubSeq(s, 1, i - 1), SubSeq(s, i + 1, Len(s))>>

\* sep.join(parts)
RECURSIVE Join(_, _)
Join(sep, parts) ==
    IF parts = <<>> THEN <<>>
    ELSE IF Len(parts) = 1 THEN parts[1]
    ELSE parts[1] \o sep \o Join(sep, Tail(parts))

(***************************************************************************)
(* Python integers.  The library's integers are unbounded; the model keeps *)
(* an integer as sign and two limbs, hi * LimbBase + lo, which covers the   *)
(* range below 2^54, where a double stops representing every integer.      *)
(***************************************************************************)
LimbBase == 2^27

\* the limbs of a small integer
FromInt(n) ==
    LET a == IF n < 0 THEN -n ELSE n
    IN  [neg |-> n < 0, hi |-> a \div LimbBase, lo |-> a % LimbBase]

Digits == <<"0", "1", "2", "3", "4", "5", "6", "7", "8", "9">>
IsDigit(c) == \E d \in 1..10 : Digits[d] = c
DigitVal(c) == (CHOOSE d \in 1..10 : Digits[d] = c) - 1

\* the integer a decimal literal denotes
RECURSIVE LimbsOfDigits(_, _)
LimbsOfDigits(s, acc) ==
    IF s = <<>> THEN acc
    ELSE LET t == acc.lo * 10 + DigitVal(Head(s))
         IN  LimbsOfDigits(Tail(s),
                 [neg |-> FALSE,
                  hi  |-> acc.hi * 10 + t \div LimbBase,
                  lo  |-> t % LimbBase])

\* the decimal digits of a non-negative integer, by repeated division by ten
RECURSIVE DigitsOfLimbs(_, _)
DigitsOfLimbs(hi, lo) ==
    LET t  == (hi % 10) * LimbBase + lo
        qh == hi \div 10
        ql == t \div 10
        d  == <<Digits[(t % 10) + 1]>>
    IN  IF qh = 0 /\ ql = 0 THEN d ELSE DigitsOfLimbs(qh, ql) \o d

\* str(n) for a Python int n
IntStr(v) ==
    (IF v.neg /\ (v.hi # 0 \/ v.lo # 0) THEN <<"-">> ELSE <<>>)
        \o DigitsOfLimbs(v.hi, v.lo)

\* float(n) for an integer n: exact below 2^53; from 2^53 to 2^54 a double
\* holds only the even integers, and an odd n rounds to the neighbour whose
\* 53-bit mantissa is even.  The result is given as the integer it equals.
RoundToDouble(v) ==
    IF v.hi < LimbBase \div 2 \/ v.lo % 2 = 0 THEN v
    ELSE IF v.lo % 4 = 1 THEN [v EXCEPT !.lo = @ - 1]
    ELSE IF v.lo + 1 = LimbBase THEN [v EXCEPT !.hi = @ + 1, !.lo = 0]
    ELSE [v EXCEPT !.lo = @ + 1]

(***************************************************************************)
(* Expressions of the computer-algebra library.                            *)
(*                                                                         *)
(* A "sum" is what the library's automatic evaluation keeps of a sum in    *)
(* one symbol: the monomials, which it collects (mono[k+1] is the          *)
(* coefficient of sym^k), and the terms it does not expand or cannot       *)
(* collect, each with a coefficient: "mul", the product f*g of two linear  *)
(* polynomials; "recip", 1/sym; "cos", cos(sym).  The other expressions    *)
(* are numbers: a fraction, ComplexInfinity ("zoo"), an integer of more    *)
(* than nine digits ("big") and 10**400 ("huge").                          *)
(***************************************************************************)
Zero3 == <<0, 0, 0>>

\* a sum in which the symbol no longer occurs names no symbol
Sum(sym, mono, terms) ==
    [kind  |-> "sum",
     sym   |-> IF mono[2] = 0 /\ mono[3] = 0 /\ terms = <<>> THEN "" ELSE sym,
     mono  |-> mono,
     terms |-> terms]
Const(n) == Sum("", <<n, 0, 0>>, <<>>)
Term(coef, fn, f, g) == [coef |-> coef, fn |-> fn, f |-> f, g |-> g]
Rat(num, den) == [kind |-> "rat", num |-> num, den |-> den]
Zoo == [kind |-> "zoo"]
Huge == [kind |-> "huge"]
Big(v) == [kind |-> "big", v |-> v]

\* Integer(literal): a number token of the input
NumOf(s) ==
    IF Len(s) <= 9 THEN Const(LimbsOfDigits(s, FromInt(0)).lo
                              + LimbsOfDigits(s, FromInt(0)).hi * LimbBase)
    ELSE Big(LimbsOfDigits(s, FromInt(0)))

SameTerm(t, u) == t.fn = u.fn /\ t.f = u.f /\ t.g = u.g

\* a sum's terms plus one more term: like terms are collected, and a term
\* whose coefficient becomes zero disappears
AddTerm(ts, t) ==
    IF \E i \in 1..Len(ts) : SameTerm(ts[i], t)
    THEN LET i == CHOOSE k \in 1..Len(ts) : SameTerm(ts[k], t)
             c == ts[i].coef + t.coef
         IN  IF c = 0 THEN SubSeq(ts, 1, i - 1) \o SubSeq(ts, i + 1, Len(ts))
             ELSE [ts EXCEPT ![i].coef = c]
    ELSE Append(ts, t)

RECURSIVE SubTerms(_, _)
SubTerms(ts, us) ==
    IF us = <<>> THEN ts
    ELSE SubTerms(AddTerm(ts, [us[1] EXCEPT !.coef = -@]), Tail(us))

\* left_expr - right_expr, as the library evaluates it on construction
Sub(l, r) ==
    CASE l.kind = "sum" /\ r.kind = "sum" ->
            Sum(IF l.sym = "" THEN r.sym ELSE l.sym,
                [k \in 1..3 |-> l.mono[k] - r.mono[k]],
                SubTerms(l.terms, r.terms))
      [] l.kind = "zoo" /\ r.kind = "sum" /\ r.terms = <<>> /\ r.mono[2] = 0
                        /\ r.mono[3] = 0 -> Zoo

\* expr.free_symbols
FreeSymbols(e) ==
    IF e.kind = "sum" /\ (e.mono[2] # 0 \/ e.mono[3] # 0 \/ e.terms # <<>>)
    THEN {e.sym} ELSE {}

\* the monomials of coef * f * g expanded
Expand(t) ==
    <<t.coef * t.f[1] * t.g[1],
      t.coef * (t.f[1] * t.g[2] + t.f[2] * t.g[1]),
      t.coef * t.f[2] * t.g[2]>>

RECURSIVE ExpandInto(_, _, _)
ExpandInto(mono, ts, kept) ==
    IF ts = <<>> THEN [mono |-> mono, terms |-> kept]
    ELSE IF ts[1].fn = "mul"
         THEN ExpandInto([k \in 1..3 |-> mono[k] + Expand(ts[1])[k]], Tail(ts), kept)
         ELSE ExpandInto(mono, Tail(ts), Append(kept, ts[1]))

\* expr.simplify(): products are multiplied out and like monomials collected
Simplify(e) ==
    IF e.kind = "sum"
    THEN LET x == ExpandInto(e.mono, e.terms, <<>>)
         IN  Sum(e.sym, x.mono, x.terms)
    ELSE e

\* expr == 0
IsZero(e) == e.kind = "sum" /\ e.mono = Zero3 /\ e.terms = <<>>

(***************************************************************************)
(* Results of a call: a value, or the class of the exception it raised.    *)
(***************************************************************************)
Ok(v) == [ok |-> TRUE, val |-> v, exc |-> ""]
Raise(e) == [ok |-> FALSE, val |-> <<>>, exc |-> e]

(***************************************************************************)
(* parse_expr(text, transformations=...): what the library returns for the *)
(* texts of the catalogue.  A text the Python grammar rejects raises       *)
(* SyntaxError (tokenize.TokenError for the unclosed parenthesis on some   *)
(* interpreters: like SyntaxError, no ValueError and no TypeError), and so *)
(* does the empty text; sqrt called without its argument raises TypeError; *)
(* 1/0 is ComplexInfinity.                                                 *)
(***************************************************************************)
X1 == <<0, 1>>
One1 == <<1, 0>>

ParseExpr(s) ==
    CASE s # <<>> /\ (\A i \in 1..Len(s) : IsDigit(s[i])) -> Ok(NumOf(s))
      [] s = SdXMinusX       -> Ok(Const(0))
      [] s = SdX             -> Ok(Sum("x", <<0, 1, 0>>, <<>>))
      [] s = SdProduct       -> Ok(Sum("x", Zero3, <<Term(1, "mul", X1, <<1, 1>>)>>))
      [] s = SdSquarePlusX   -> Ok(Sum("x", <<0, 1, 1>>, <<>>))
      [] s = SdSquarePlusXPlus1 -> Ok(Sum("x", <<1, 1, 1>>, <<>>))
      [] s = SdSquareMinus4  -> Ok(Sum("x", <<-4, 0, 1>>, <<>>))
      [] s = SdSquarePlus1   -> Ok(Sum("x", <<1, 0, 1>>, <<>>))
      [] s = SdLinear        -> Ok(Sum("x", <<4, 2, 0>>, <<>>))
      [] s = SdRepeated      -> Ok(Sum("x", <<1, -2, 1>>, <<>>))
      [] s = SdComplex       -> Ok(Sum("x", <<5, -2, 1>>, <<>>))
      [] s = SdCos           -> Ok(Sum("x", Zero3, <<Term(1, "cos", X1, One1)>>))
      [] s = SdRecip         -> Ok(Sum("x", Zero3, <<Term(1, "recip", X1, One1)>>))
      [] s = SdYMinusY       -> Ok(Const(0))
      [] s = SdYProduct      -> Ok(Sum("y", Zero3, <<Term(1, "mul", X1, <<1, 1>>)>>))
      [] s = SdYSquarePlusY  -> Ok(Sum("y", <<0, 1, 1>>, <<>>))
      [] s = SdYSquareMinus4 -> Ok(Sum("y", <<-4, 0, 1>>, <<>>))
      [] s = SdYLinear       -> Ok(Sum("y", <<4, 2, 0>>, <<>>))
      [] s = SdTwoPlusTwo    -> Ok(Const(4))
      [] s = Long500         -> Ok(Const(4))
      [] s = SdTwoMinusTwo   -> Ok(Const(0))
      [] s = SdTwoMinusSeven -> Ok(Const(-5))
      [] s = SdHalf          -> Ok(Rat(1, 2))
      [] s = SdDivZero       -> Ok(Zoo)
      [] s = SdHuge          -> Ok(Huge)
      [] s = <<>>            -> Raise("SyntaxError")
      [] s = SdUnmatched     -> Raise("SyntaxError")
      [] s = SdDangling      -> Raise("SyntaxError")
      [] s = SdOneEqualsTwo  -> Raise("SyntaxError")
      [] s = SdDollar        -> Raise("SyntaxError")
      [] s = SdSqrtNoArg     -> Raise("TypeError")

(***************************************************************************)
(* parse_equation (app.py:13-25)                                           *)
(***************************************************************************)
parse_equation(equation_str) ==
    LET str == Replace(equation_str, "^", <<"*", "*">>)
    IN  IF Contains(str, "=")
        THEN LET parts == SplitFirst(str, "=")
                 left_expr == ParseExpr(Strip(parts[1]))
                 right_expr == ParseExpr(Strip(parts[2]))
             IN  IF ~left_expr.ok THEN left_expr
                 ELSE IF ~right_expr.ok THEN right_expr
                 ELSE Ok(Sub(left_expr.val, right_expr.val))
        ELSE ParseExpr(str)

(***************************************************************************)
(* solve(expr, x) of the library.  A polynomial of degree one or two has   *)
(* its roots listed in the library's canonical order: by ascending real    *)
(* part, then by ascending imaginary part, a repeated root once.  An       *)
(* expression that is zero or a nonzero constant once multiplied out, and  *)
(* 1/x, have no root: the empty list.  x - cos(x) has no implemented       *)
(* method: NotImplementedError.                                            *)
(***************************************************************************)
Root(re, im) == [re |-> re, im |-> im]

\* is z a root of m[1] + m[2]*z + m[3]*z^2
IsRoot(m, z) ==
    /\ m[1] + m[2] * z.re + m[3] * (z.re * z.re - z.im * z.im) = 0
    /\ m[2] * z.im + 2 * m[3] * z.re * z.im = 0

Before(a, b) == a.re < b.re \/ (a.re = b.re /\ a.im < b.im)

RECURSIVE Ordered(_)
Ordered(S) ==
    IF S = {} THEN <<>>
    ELSE LET first == CHOOSE a \in S : \A b \in S \ {a} : Before(a, b)
         IN  <<first>> \o Ordered(S \ {first})

PolyRoots(m) ==
    IF m[2] = 0 /\ m[3] = 0 THEN <<>>
    ELSE Ordered({z \in [re : -RootBound..RootBound, im : -RootBound..RootBound] :
                      IsRoot(m, z)})

SympySolve(equation, x) ==
    LET e == Simplify(equation)
    IN  CASE e.terms = <<>> -> Ok(PolyRoots(e.mono))
          [] \E i \in 1..Len(e.terms) : e.terms[i].fn = "cos" ->
                Raise("NotImplementedError")
          [] e.terms # <<>> /\ e.mono = Zero3
                /\ (\A i \in 1..Len(e.terms) : e.terms[i].fn = "recip") -> Ok(<<>>)

(***************************************************************************)
(* The elements of the list solve_equation returns: the string "EVAL", an  *)
(* expression, a root, or the set S.Reals.                                 *)
(***************************************************************************)
StrItem(s) == [t |-> "str", s |-> s, e |-> Zoo, z |-> Root(0, 0)]
ExprItem(e) == [t |-> "expr", s |-> "", e |-> e, z |-> Root(0, 0)]
RootItem(z) == [t |-> "root", s |-> "", e |-> Zoo, z |-> z]
RealsItem == [t |-> "Reals", s |-> "", e |-> Zoo, z |-> Root(0, 0)]

(***************************************************************************)
(* solve_equation (app.py:28-42)                                           *)
(***************************************************************************)
solve_equation(equation_str, variable) ==
    LET parsed == parse_equation(equation_str)
    IN  IF ~parsed.ok THEN parsed
        ELSE LET equation == parsed.val
             IN  IF variable \notin FreeSymbols(equation)
                 THEN Ok(<<StrItem("EVAL"), ExprItem(Simplify(equation))>>)
                 ELSE LET solved == SympySolve(equation, variable)
                      IN  IF ~solved.ok THEN solved
                          ELSE IF solved.val = <<>> /\ IsZero(Simplify(equation))
                               THEN Ok(<<RealsItem>>)
                               ELSE Ok([i \in 1..Len(solved.val) |->
                                           RootItem(solved.val[i])])

(***************************************************************************)
(* float(), int() and str() on the library's numbers.                      *)
(***************************************************************************)
\* float(result): cls "int" is a double that equals the integer v, "frac" a
\* double with a fractional part whose integer part is v, "inf" infinity
\* (the double nearest to 10**400); ComplexInfinity has no float value
PyFloat(e) ==
    CASE e.kind = "sum" /\ e.sym = "" ->
            Ok([cls |-> "int", v |-> RoundToDouble(FromInt(e.mono[1]))])
      [] e.kind = "big"  -> Ok([cls |-> "int", v |-> RoundToDouble(e.v)])
      [] e.kind = "rat"  -> Ok([cls |-> "frac", v |-> FromInt(e.num \div e.den)])
      [] e.kind = "huge" -> Ok([cls |-> "inf", v |-> FromInt(0)])
      [] e.kind = "zoo"  -> Raise("TypeError")
      [] e.kind = "sum" /\ e.sym # "" -> Raise("TypeError")

\* int(f) for a double f
PyInt(f) == IF f.cls = "inf" THEN Raise("OverflowError") ELSE Ok(f.v)

\* str(expr) for a number that is not an integer
StrExpr(e) ==
    CASE e.kind = "rat" -> IntStr(FromInt(e.num)) \o <<"/">> \o IntStr(FromInt(e.den))
      [] e.kind = "zoo" -> StrZoo

\* str(root) for a root re + im*I with integer parts
StrRoot(z) ==
    LET imag == IF z.im = 1 THEN <<"I">>
                ELSE IF z.im = -1 THEN <<"-", "I">>
                ELSE IntStr(FromInt(z.im)) \o <<"*", "I">>
        absim == IF z.im = 1 \/ z.im = -1 THEN <<"I">>
                 ELSE IntStr(FromInt(IF z.im < 0 THEN -z.im ELSE z.im)) \o <<"*", "I">>
    IN  IF z.im = 0 THEN IntStr(FromInt(z.re))
        ELSE IF z.re = 0 THEN imag
        ELSE IntStr(FromInt(z.re))
                 \o (IF z.im < 0 THEN <<" ", "-", " ">> ELSE <<" ", "+", " ">>)
                 \o absim

(***************************************************************************)
(* format_solutions (app.py:45-70)                                         *)
(***************************************************************************)
\* app.py:50-57, the branch of an ["EVAL", result] list
FormatScalar(result) ==
    LET asfloat == PyFloat(result)
        asint == PyInt(asfloat.val)
        result_str == Replace(StrExpr(result), "I", <<"i">>)
    IN  IF ~asfloat.ok THEN Ok(result_str)
        ELSE IF ~asint.ok THEN asint
        ELSE IF asfloat.val.cls = "int" THEN Ok(IntStr(asint.val))
        ELSE Ok(result_str)

FormatRoot(sol) == <<"x", " ", "=", " ">> \o Replace(StrRoot(sol.z), "I", <<"i">>)

format_solutions(solutions) ==
    IF solutions = <<>> THEN Ok(MsgNoSolution)
    ELSE IF Len(solutions) = 2 /\ solutions[1].t = "str" /\ solutions[1].s = "EVAL"
         THEN FormatScalar(solutions[2].e)
    ELSE IF \E i \in 1..Len(solutions) : solutions[i].t = "Reals"
         THEN Ok(MsgAnyReal)
    ELSE LET formatted == [i \in 1..Len(solutions) |-> FormatRoot(solutions[i])]
         IN  IF Len(formatted) = 1 THEN Ok(formatted[1])
             ELSE Ok(Join(StrOr, formatted))

(***************************************************************************)
(* The /solve handler (app.py:83-102).                                     *)
(*                                                                         *)
(* Requests are served concurrently; each runs solve() in a frame of its   *)
(* own.  pc[r] is the position of request r in solve(); the locals of      *)
(* solve() are indexed by frame.                                           *)
(***************************************************************************)
VARIABLES
    pc,           \* idle, try, solved, formatted, raised, done, escaped
    param,        \* request.args.get("equation"): present or not, and its text
    equation,     \* local of solve(): the trimmed text
    solutions,    \* local of solve(): what solve_equation returned
    result_text,  \* local of solve(): what format_solutions returned
    raised,       \* the exception in flight inside the try block
    response,     \* the response returned for the request
    cpc,          \* direct use of the functions: start, parsed, solved,
                  \* formatted, raised
    cin,          \* its arguments: the equation text and the variable name
    cexpr,        \* what parse_equation returned
    csol,         \* what solve_equation returned
    cout,         \* what format_solutions returned
    cexc          \* the exception a function raised

hvars == <<pc, param, equation, solutions, result_text, raised, response>>
cvars == <<cpc, cin, cexpr, csol, cout, cexc>>
vars == <<pc, param, equation, solutions, result_text, raised, response,
          cpc, cin, cexpr, csol, cout, cexc>>

Requests == 1..NReq

\* a frame shared by every request, as module-level state would be
SharedFrame(r) == 1

\* the frame request r runs solve() in
Frame(r) == r

Param(s) == [present |-> TRUE, text |-> s]
NoParam == [present |-> FALSE, text |-> <<>>]

\* the catalogue of equation texts
Bodies ==
    {EqXMinusXIs5, EqXMinusXIs0, EqIdentity, EqContradiction, EqSquareMinus4, EqSquarePlus1,
     EqLinear, EqRepeated, EqComplex, EqTwoPlusTwo, EqTwoMinusTwo,
     EqTwoMinusSeven, EqHalf, EqUnmatched, EqDangling, EqDoubleEquals,
     EqDollar, EqDivZero, EqCos, EqRecip, EqSqrtNoArg, EqHuge, EqBig,
     Long500, Long501}

\* the values of the query parameter: missing, empty, blank, a text of the
\* catalogue, and a text with blanks around it
Params ==
    {NoParam, Param(<<>>), Param(Spaces(3))}
        \cup {Param(b) : b \in Bodies}
        \cup {Param(<<" ">> \o b \o <<" ", " ">>) :
                 b \in {EqTwoPlusTwo, EqSquareMinus4, EqDangling, Long500, Long501}}

\* the values sent by the clients that run side by side
ConcurrentParams ==
    {NoParam, Param(<<" ">> \o EqTwoPlusTwo \o <<" ", " ">>), Param(EqSquareMinus4),
     Param(EqIdentity), Param(EqDangling), Param(EqSqrtNoArg), Param(EqHuge)}

NoResponse == [status |-> 0, field |-> "", msg |-> "", result |-> <<>>]
Result200(text) == [status |-> 200, field |-> "result", msg |-> "", result |-> text]
Error(status, msg) == [status |-> status, field |-> "error", msg |-> msg, result |-> <<>>]

ErrMissing == Error(400, "Missing 'equation' query parameter")
ErrTooLong == Error(400, "Equation too long (max 500 characters)")
ErrInvalid == Error(400, "Invalid equation syntax. Please check your input.")
ErrFailed == Error(500, "Failed to solve equation. Please try a simpler form.")

\* the limit taken one character too low
TooLongOffByOne(eq) == Len(eq) >= MaxEquationLen

\* app.py:90
TooLong(eq) == Len(eq) > MaxEquationLen

\* app.py:98  except (SympifyError, ValueError, TypeError)
CaughtAsInvalid(e) == e \in {"SympifyError", "ValueError", "TypeError"}

\* a last clause that names one class only
CaughtAsNotImplemented(e) == e = "NotImplementedError"

\* app.py:101  except Exception: every exception a stage raises is one
CaughtAsException(e) ==
    e \in {"SympifyError", "ValueError", "TypeError", "SyntaxError",
           "NotImplementedError", "OverflowError"}

HInit ==
    /\ pc = [r \in Requests |-> "idle"]
    /\ param = [r \in Requests |-> NoParam]
    /\ equation = [f \in Requests |-> <<>>]
    /\ solutions = [f \in Requests |-> <<>>]
    /\ result_text = [f \in Requests |-> <<>>]
    /\ raised = [f \in Requests |-> ""]
    /\ response = [r \in Requests |-> NoResponse]

\* app.py:85-91: a request arrives; its text is trimmed and validated
Receive(r, p) ==
    /\ pc[r] = "idle"
    /\ param' = [param EXCEPT ![r] = p]
    /\ LET eq == Strip(IF p.present THEN p.text ELSE <<>>)
       IN  /\ equation' = [equation EXCEPT ![Frame(r)] = eq]
           /\ IF eq = <<>>
              THEN /\ response' = [response EXCEPT ![r] = ErrMissing]
                   /\ pc' = [pc EXCEPT ![r] = "done"]
              ELSE IF TooLong(eq)
              THEN /\ response' = [response EXCEPT ![r] = ErrTooLong]
                   /\ pc' = [pc EXCEPT ![r] = "done"]
              ELSE /\ response' = [response EXCEPT ![r] = NoResponse]
                   /\ pc' = [pc EXCEPT ![r] = "try"]
    /\ UNCHANGED <<solutions, result_text, raised>>
    /\ UNCHANGED cvars

\* app.py:94  solutions = solve_equation(equation, variable="x")
CallSolve(r) ==
    /\ pc[r] = "try"
    /\ LET res == solve_equation(equation[Frame(r)], "x")
       IN  IF res.ok
           THEN /\ solutions' = [solutions EXCEPT ![Frame(r)] = res.val]
                /\ pc' = [pc EXCEPT ![r] = "solved"]
                /\ UNCHANGED raised
           ELSE /\ raised' = [raised EXCEPT ![Frame(r)] = res.exc]
                /\ pc' = [pc EXCEPT ![r] = "raised"]
                /\ UNCHANGED solutions
    /\ UNCHANGED <<param, equation, result_text, response>>
    /\ UNCHANGED cvars

\* app.py:95  result_text = format_solutions(solutions)
CallFormat(r) ==
    /\ pc[r] = "solved"
    /\ LET res == format_solutions(solutions[Frame(r)])
       IN  IF res.ok
           THEN /\ result_text' = [result_text EXCEPT ![Frame(r)] = res.val]
                /\ pc' = [pc EXCEPT ![r] = "formatted"]
                /\ UNCHANGED raised
           ELSE /\ raised' = [raised EXCEPT ![Frame(r)] = res.exc]
                /\ pc' = [pc EXCEPT ![r] = "raised"]
                /\ UNCHANGED result_text
    /\ UNCHANGED <<param, equation, solutions, response>>
    /\ UNCHANGED cvars

\* app.py:96  return jsonify({"result": result_text}), 200
Return200(r) ==
    /\ pc[r] = "formatted"
    /\ response' = [response EXCEPT ![r] = Result200(result_text[Frame(r)])]
    /\ pc' = [pc EXCEPT ![r] = "done"]
    /\ UNCHANGED <<param, equation, solutions, result_text, raised>>
    /\ UNCHANGED cvars

\* app.py:98-99
ExceptInvalid(r) ==
    /\ pc[r] = "raised"
    /\ CaughtAsInvalid(raised[Frame(r)])
    /\ response' = [response EXCEPT ![r] = ErrInvalid]
    /\ pc' = [pc EXCEPT ![r] = "done"]
    /\ UNCHANGED <<param, equation, solutions, result_text, raised>>
    /\ UNCHANGED cvars

\* app.py:101-102; an exception no clause catches leaves solve()
ExceptOther(r) ==
    /\ pc[r] = "raised"
    /\ ~CaughtAsInvalid(raised[Frame(r)])
    /\ IF CaughtAsException(raised[Frame(r)])
       THEN /\ response' = [response EXCEPT ![r] = ErrFailed]
            /\ pc' = [pc EXCEPT ![r] = "done"]
       ELSE /\ pc' = [pc EXCEPT ![r] = "escaped"]
            /\ UNCHANGED response
    /\ UNCHANGED <<param, equation, solutions, result_text, raised>>
    /\ UNCHANGED cvars

\* the response has been sent and the frame is gone; the worker takes the
\* next request
Finish(r) ==
    /\ pc[r] = "done"
    /\ pc' = [pc EXCEPT ![r] = "idle"]
    /\ param' = [param EXCEPT ![r] = NoParam]
    /\ response' = [response EXCEPT ![r] = NoResponse]
    /\ equation' = [equation EXCEPT ![Frame(r)] = <<>>]
    /\ solutions' = [solutions EXCEPT ![Frame(r)] = <<>>]
    /\ result_text' = [result_text EXCEPT ![Frame(r)] = <<>>]
    /\ raised' = [raised EXCEPT ![Frame(r)] = ""]
    /\ UNCHANGED cvars

(***************************************************************************)
(* Direct use of parse_equation, solve_equation and format_solutions with  *)
(* a variable name of the caller's choice.                                 *)
(***************************************************************************)
Variables == {"x", "y"}

CoreBodies ==
    (Bodies \ {Long501})
        \cup {EqYIdentity, EqYSquareMinus4, EqYLinear, EqYMinusYIs0}

\* the equation is written in the variable it is solved for
WrittenIn(b, v) ==
    LET parsed == parse_equation(b)
    IN  parsed.ok => FreeSymbols(parsed.val) \subseteq {v}

CoreInputs ==
    {i \in [eq : CoreBodies, var : Variables] : WrittenIn(i.eq, i.var)}

NoExpr == [kind |-> "none"]

CoreOff ==
    /\ cpc = "off"
    /\ cin = [eq |-> <<>>, var |-> "x"]
    /\ cexpr = NoExpr
    /\ csol = <<>>
    /\ cout = <<>>
    /\ cexc = ""

CoreInit ==
    /\ cpc = "start"
    /\ cin \in CoreInputs
    /\ cexpr = NoExpr
    /\ csol = <<>>
    /\ cout = <<>>
    /\ cexc = ""

\* app.py:29  equation = parse_equation(equation_str)
CoreParse ==
    /\ cpc = "start"
    /\ LET res == parse_equation(cin.eq)
       IN  IF res.ok
           THEN /\ cexpr' = res.val
                /\ cpc' = "parsed"
                /\ UNCHANGED cexc
           ELSE /\ cexc' = res.exc
                /\ cpc' = "raised"
                /\ UNCHANGED cexpr
    /\ UNCHANGED <<cin, csol, cout>>
    /\ UNCHANGED hvars

\* app.py:28-42  solve_equation(equation_str, variable)
CoreSolve ==
    /\ cpc = "parsed"
    /\ LET res == solve_equation(cin.eq, cin.var)
       IN  IF res.ok
           THEN /\ csol' = res.val
                /\ cpc' = "solved"
                /\ UNCHANGED cexc
           ELSE /\ cexc' = res.exc
                /\ cpc' = "raised"
                /\ UNCHANGED csol
    /\ UNCHANGED <<cin, cexpr, cout>>
    /\ UNCHANGED hvars

\* app.py:45-70  format_solutions(solutions)
CoreFormat ==
    /\ cpc = "solved"
    /\ LET res == format_solutions(csol)
       IN  IF res.ok
           THEN /\ cout' = res.val
                /\ cpc' = "formatted"
                /\ UNCHANGED cexc
           ELSE /\ cexc' = res.exc
                /\ cpc' = "raised"
                /\ UNCHANGED cout
    /\ UNCHANGED <<cin, cexpr, csol>>
    /\ UNCHANGED hvars

(***************************************************************************)
(* Specifications.                                                         *)
(***************************************************************************)
Init == HInit /\ CoreOff

\* requests served side by side, one thread each
Next ==
    \/ \E r \in Requests, p \in ConcurrentParams : Receive(r, p)
    \/ \E r \in Requests : CallSolve(r)
    \/ \E r \in Requests : CallFormat(r)
    \/ \E r \in Requests : Return200(r)
    \/ \E r \in Requests : ExceptInvalid(r)
    \/ \E r \in Requests : ExceptOther(r)
    \/ \E r \in Requests : Finish(r)

Spec == Init /\ [][Next]_vars

\* requests served one after the other, over the whole catalogue
NextSerial ==
    \/ \E p \in Params : Receive(1, p)
    \/ CallSolve(1)
    \/ CallFormat(1)
    \/ Return200(1)
    \/ ExceptInvalid(1)
    \/ ExceptOther(1)
    \/ Finish(1)

SpecSerial == Init /\ [][NextSerial]_vars

\* the three functions called directly
InitCore == HInit /\ CoreInit

NextCore == CoreParse \/ CoreSolve \/ CoreFormat

SpecCore == InitCore /\ [][NextCore]_vars

(***************************************************************************)
(* Properties.                                                             *)
(***************************************************************************)
\* the functions have returned or raised
CoreDone == cpc \in {"formatted", "raised"}

\* the simplified lhs - rhs of the text given to solve_equation
Collapsed == Simplify(parse_equation(cin.eq).val)

IsConstant(e) == e.kind = "sum" /\ e.sym = ""

\* "v = <root>" for each root of a list, joined with " or "
Listed(v, roots) ==
    Join(StrOr, [i \in 1..Len(roots) |->
                    <<v>> \o StrEq \o Replace(StrRoot(roots[i].z), "I", <<"i">>)])

\* larger real part first, then the non-negative imaginary part first
SpecBefore(a, b) == a.z.re > b.z.re \/ (a.z.re = b.z.re /\ a.z.im > b.z.im)

RECURSIVE SpecOrdered(_)
SpecOrdered(S) ==
    IF S = {} THEN <<>>
    ELSE LET first == CHOOSE a \in S : \A b \in S \ {a} : SpecBefore(a, b)
         IN  <<first>> \o SpecOrdered(S \ {first})

IsRootList(sol) == sol # <<>> /\ \A i \in 1..Len(sol) : sol[i].t = "root"

\* C1: an equation in x whose lhs - rhs collapses to a nonzero constant is
\* answered "No solution exists", never with the rendered constant.
C1_ContradictionHasNoSolution ==
    (CoreDone /\ cin.var = "x" /\ Contains(cin.eq, "=") /\ parse_equation(cin.eq).ok
        /\ IsConstant(Collapsed) /\ ~IsZero(Collapsed))
    => (cpc = "formatted" /\ cout = MsgNoSolution)

\* C2: an equation in x whose lhs - rhs simplifies to 0 is answered
\* "x can be any real number", never with the scalar "0".
C2_IdentityIsAnyReal ==
    (CoreDone /\ cin.var = "x" /\ Contains(cin.eq, "=") /\ parse_equation(cin.eq).ok
        /\ IsZero(Collapsed))
    => (cpc = "formatted" /\ cout = MsgAnyReal)

\* C3: two or more roots are listed with the larger real part first and, for
\* equal real parts, the non-negative imaginary part first.
C3_RootsInFixedOrder ==
    (cpc = "formatted" /\ cin.var = "x" /\ IsRootList(csol) /\ Len(csol) >= 2)
    => cout = Listed("x", SpecOrdered({csol[i] : i \in 1..Len(csol)}))

\* C4: the output names the variable that was solved for: "v can be any real
\* number" for an identity and "v = <root>" for every root.
C4_OutputNamesVariable ==
    /\ (cpc = "formatted" /\ csol = <<RealsItem>>)
          => cout = <<cin.var>> \o TailAnyReal
    /\ (cpc = "formatted" /\ IsRootList(csol)) => cout = Listed(cin.var, csol)

\* C6: "No solution exists" is produced only for an equation proved to be a
\* contradiction, one whose lhs - rhs simplifies to a nonzero constant.
C6_NoSolutionOnlyForContradiction ==
    (cpc = "formatted" /\ cout = MsgNoSolution)
    => (IsConstant(Simplify(cexpr)) /\ ~IsZero(Simplify(cexpr)))

\* the decimal digits of the integer a variable-free expression denotes
ExactDigits(e) ==
    CASE e.kind = "sum"  -> IntStr(FromInt(e.mono[1]))
      [] e.kind = "big"  -> IntStr(e.v)
      [] e.kind = "huge" -> <<"1">> \o [i \in 1..400 |-> "0"]

\* C9: a variable-free expression whose value is an exact integer n is
\* rendered as the decimal digits of n.
C9_IntegerScalarDigits ==
    (CoreDone /\ ~Contains(cin.eq, "=") /\ parse_equation(cin.eq).ok
        /\ (IsConstant(Collapsed) \/ Collapsed.kind \in {"big", "huge"}))
    => (cpc = "formatted" /\ cout = ExactDigits(Collapsed))

\* the trimmed text of request r
Trimmed(r) == Strip(IF param[r].present THEN param[r].text ELSE <<>>)

Count(s, c) == Cardinality({i \in 1..Len(s) : s[i] = c})

Alphabet ==
    {"a", "b", "c", "d", "e", "f", "g", "h", "i", "j", "k", "l", "m", "n", "o",
     "p", "q", "r", "s", "t", "u", "v", "w", "x", "y", "z",
     "0", "1", "2", "3", "4", "5", "6", "7", "8", "9",
     "+", "-", "*", "/", "^", "(", ")", "=", ".", " "}

\* an unrecognized character, an unmatched parenthesis, a dangling operator
\* or a second "="
Malformed(s) ==
    \/ \E i \in 1..Len(s) : s[i] \notin Alphabet
    \/ Count(s, "(") # Count(s, ")")
    \/ s[Len(s)] \in {"+", "-", "*", "/", "^"}
    \/ Count(s, "=") >= 2

\* a division by the literal zero
DividesByZero(s) == \E i \in 1..(Len(s) - 1) : s[i] = "/" /\ s[i + 1] = "0"

Served(r) == pc[r] = "done" /\ Trimmed(r) # <<>> /\ ~TooLong(Trimmed(r))

\* C5: malformed input and domain errors are answered 400 "Invalid equation
\* syntax", an equation the solver has no method for 500.
C5_ErrorClasses ==
    \A r \in Requests :
        /\ (Served(r) /\ (Malformed(Trimmed(r)) \/ DividesByZero(Trimmed(r))))
              => response[r] = ErrInvalid
        /\ (Served(r) /\ Trimmed(r) = EqCos) => response[r] = ErrFailed

\* C7: whatever a stage raises, the request gets exactly one response, 200
\* with a result or 400 or 500 with an error, and no exception leaves solve().
C7_EveryFailureIsAResponse ==
    \A r \in Requests :
        /\ pc[r] # "escaped"
        /\ pc[r] = "done" =>
              \/ response[r].status = 200 /\ response[r].field = "result"
              \/ response[r].status \in {400, 500} /\ response[r].field = "error"
        /\ pc[r] # "done" => response[r] = NoResponse

\* an exception raised by format_solutions was answered 500
C7_Witness ==
    /\ pc[1] = "done"
    /\ raised[Frame(1)] = "OverflowError"
    /\ solutions[Frame(1)] # <<>>
    /\ response[1] = ErrFailed

\* C8: solve_equation is called only with a trimmed text of 1 to 500
\* characters; an empty text and a longer text are answered 400 before
\* anything is parsed, and a text of exactly 500 characters is accepted.
C8_ValidatedBeforeSolving ==
    \A r \in Requests :
        pc[r] # "idle" =>
            /\ pc[r] \in {"try", "solved", "formatted", "raised"} =>
                  /\ equation[Frame(r)] = Trimmed(r)
                  /\ Len(equation[Frame(r)]) >= 1
                  /\ Len(equation[Frame(r)]) <= 500
            /\ Trimmed(r) = <<>> <=> (pc[r] = "done" /\ response[r] = ErrMissing)
            /\ Len(Trimmed(r)) > 500 <=> (pc[r] = "done" /\ response[r] = ErrTooLong)
            /\ response[r] \in {ErrMissing, ErrTooLong} =>
                  solutions[Frame(r)] = <<>> /\ raised[Frame(r)] = ""

\* a text of exactly 500 characters after trimming, longer before, is solved
C8_Witness ==
    /\ pc[1] = "solved"
    /\ Len(param[1].text) > 500
    /\ Len(equation[Frame(1)]) = 500

\* the response the handler gives a request served alone
Alone(p) ==
    LET eq == Strip(IF p.present THEN p.text ELSE <<>>)
        sol == solve_equation(eq, "x")
        out == format_solutions(sol.val)
        failed(e) == IF CaughtAsInvalid(e) THEN ErrInvalid ELSE ErrFailed
    IN  IF eq = <<>> THEN ErrMissing
        ELSE IF TooLong(eq) THEN ErrTooLong
        ELSE IF ~sol.ok THEN failed(sol.exc)
        ELSE IF ~out.ok THEN failed(out.exc)
        ELSE Result200(out.val)

====
